---- MODULE Spec2Model ----
(***************************************************************************)
(* Model of lpdaac_subset_gedi.py and subsetting_tools/utilities.py:       *)
(* the spatial flag of the query, the scrolling CMR granule search, the    *)
(* timeout of every HTTP call, the serial sync loop, the                   *)
(* multiprocessing sync (Pool.apply_async / close / join / get) and the    *)
(* two network helpers compare_checksums and from_lpdaac.                  *)
(***************************************************************************)
EXTENDS Integers, Sequences, FiniteSets, TLC

(***************************************************************************)
(* Bounds of the model.                                                    *)
(***************************************************************************)
\* longest granule listing of the catalogs of the sync specification
MaxGranules == 2
\* most entries, over all its pages, of a catalog of the search specification
MaxCatalogEntries == 3
\* most network failures the environment injects in one behaviour
MaxFaults == 2
\* largest pool size (PROCESSES) tried
MaxProcesses == 2
\* largest server page size of the pagination specification
MaxPageSize == 3
\* longest --version string tried
MaxVersionLen == 4

(***************************************************************************)
(* Values.                                                                 *)
(***************************************************************************)
\* cmr_scroll_id = None
None == "None"

\* the token the catalog hands out in the cmr-scroll-id header
ScrollToken == "scroll-1"

\* form="application/x-hdfeos"
form == "application/x-hdfeos"

\* A url is the sequence of its "/"-separated pieces:
\* "https://host/dir/name" is <<"https:", "", host, dir, name>>.
Url(host, dir, name) == <<"https:", "", host, dir, name>>

U1 == Url("e4ftl01", "2019.04.18", "1")
U2 == Url("e4ftl01", "2019.04.18", "2")
\* same last two path segments as U1, on another host
U3 == Url("mirror", "2019.04.18", "1")

URLS == {U1, U2, U3}

(***************************************************************************)
(* utilities.py                                                            *)
(***************************************************************************)
\* posixpath.split: head is everything before the last "/", with trailing
\* slashes stripped; tail is the last piece
RECURSIVE rstrip_sep(_)
rstrip_sep(s) ==
    IF s # <<>> /\ s[Len(s)] = "" /\ Len(s) > 1
    THEN rstrip_sep(SubSeq(s, 1, Len(s) - 1))
    ELSE s

posix_head(s) == rstrip_sep(SubSeq(s, 1, Len(s) - 1))

posix_tail(s) == s[Len(s)]

\* url_split: a tuple whose first element is the scheme and host kept
\* together, followed by one element per path segment
RECURSIVE url_split(_)
url_split(s) ==
    LET head == posix_head(s)
        tail == posix_tail(s)
    IN  IF head \in {<<"http:">>, <<"https:">>} THEN <<s>>
        ELSE IF head \in {<<>>, <<"">>} THEN <<tail>>
        ELSE Append(url_split(head), tail)

\* os.path.join(DIRECTORY,args[-2],args[-1]), DIRECTORY being fixed
local_path(granule) ==
    LET args == url_split(granule)
    IN  <<args[Len(args) - 1], args[Len(args)]>>

\* hashlib.md5(...).hexdigest(): a digest of the bytes read
md5(bytes) == <<"md5", bytes>>

\* a local file that does not exist
NoFile == <<>>

\* get_hash called with another algorithm than the .xml declares
get_hash_sha1(file) == IF file = NoFile THEN <<>> ELSE <<"sha1", file>>

\* get_hash: '' when the local file does not exist
get_hash(file) == IF file = NoFile THEN <<>> ELSE md5(file)

\* the body the archive serves for a granule
RemoteBytes(granule) == <<"body", granule[3], granule[5]>>

\* an older revision of a granule file
OldBytes == <<"old">>

\* what is left in the local file when the copy stops part way
PartialBytes(granule) == <<"part", granule[3], granule[5]>>

(***************************************************************************)
(* cmr_filter_json                                                         *)
(***************************************************************************)
\* the filter without the test of the link's type: every href is kept
RECURSIVE filter_links_any_type(_)
filter_links_any_type(links) ==
    IF links = <<>> THEN <<>>
    ELSE <<Head(links).href>> \o filter_links_any_type(Tail(links))

\* for i,link in enumerate(entry['links']): keep href of links of type form
RECURSIVE filter_links(_)
filter_links(links) ==
    IF links = <<>> THEN <<>>
    ELSE LET link == Head(links)
         IN  (IF "type" \in DOMAIN link /\ link.type = form
              THEN <<link.href>> ELSE <<>>) \o filter_links(Tail(links))

RECURSIVE filter_entries(_)
filter_entries(entries) ==
    IF entries = <<>> THEN <<>>
    ELSE filter_links(Head(entries).links) \o filter_entries(Tail(entries))

\* a filter that looks at the first entry of the page only
cmr_filter_json_first_entry(search_page) ==
    IF "feed" \notin DOMAIN search_page
       \/ "entry" \notin DOMAIN search_page.feed
       \/ search_page.feed.entry = <<>>
    THEN <<>>
    ELSE filter_links(Head(search_page.feed.entry).links)

cmr_filter_json(search_page) ==
    IF "feed" \notin DOMAIN search_page
       \/ "entry" \notin DOMAIN search_page.feed
    THEN <<>>
    ELSE filter_entries(search_page.feed.entry)

(***************************************************************************)
(* The remote catalog: the pages it serves, in order, to successive        *)
(* requests of one scroll session. After its last page it serves pages    *)
(* with an empty entry list.                                               *)
(***************************************************************************)
Link(type, href) == [type |-> type, href |-> href]

\* an entry with a browse image and a data file
DataEntry(granule) ==
    [links |-> <<Link("image/jpeg", granule), Link(form, granule)>>]

\* an entry with no link of the expected type: one link of another type and
\* one link without a type
OtherEntry == [links |-> <<Link("image/jpeg", U1), [href |-> U1]>>]

Page(entries) == [feed |-> [entry |-> entries]]

\* a response without 'feed', and one whose feed has no 'entry'
NoFeedPage == [errors |-> <<"error">>]

NoEntryPage == [feed |-> [updated |-> "now"]]

EmptyPage == Page(<<>>)

SeqsUpTo(S, n) == UNION {[1..m -> S] : m \in 0..n}

\* the granule records of a page
Entries(page) ==
    IF "feed" \in DOMAIN page /\ "entry" \in DOMAIN page.feed
    THEN page.feed.entry ELSE <<>>

\* the page the catalog serves to the n-th request of a scroll session
PageAt(cat, n) == IF n <= Len(cat) THEN cat[n] ELSE EmptyPage

\* cmr-hits: the number of granule records that match the query
RECURSIVE Hits(_)
Hits(cat) == IF cat = <<>> THEN 0 ELSE Len(Entries(Head(cat))) + Hits(Tail(cat))

\* catalogs of the sync specification: one page listing the granules
SyncCatalogs ==
    {<<Page([k \in DOMAIN g |-> DataEntry(g[k])])>> : g \in SeqsUpTo(URLS, MaxGranules)}

\* catalogs of the search specification: pages with at least one entry,
\* MaxCatalogEntries entries in all at most, then possibly a response without
\* 'feed' or without 'entry'
SearchEntries == {DataEntry(U1), DataEntry(U2), OtherEntry}

RECURSIVE CatalogsOf(_)
CatalogsOf(n) ==
    {<<>>} \cup
    UNION {{<<Page(e)>> \o c : c \in CatalogsOf(n - Len(e))} :
              e \in SeqsUpTo(SearchEntries, n) \ {<<>>}}

SearchCatalogs ==
    UNION {{c, c \o <<NoFeedPage>>, c \o <<NoEntryPage>>} :
              c \in CatalogsOf(MaxCatalogEntries)}

\* catalogs of the pagination specification: three full pages of ps granules,
\* a page of three, then an empty page; every granule distinct. A page of
\* three granules needs a server page size of three at least.
PagedUrl(n) == Url("e4ftl01", "2019.04.18", ToString(n))

PagedCatalog(ps) ==
    [p \in 1..5 |->
        Page([k \in 1..(CASE p <= 3 -> ps [] p = 4 -> 3 [] OTHER -> 0) |->
                DataEntry(PagedUrl((p - 1) * ps + k))])]

PagedCatalogs == {PagedCatalog(ps) : ps \in 3..MaxPageSize}

\* every data-file url of a catalog, in catalog order
RECURSIVE AllUrls(_)
AllUrls(cat) ==
    IF cat = <<>> THEN <<>> ELSE cmr_filter_json(Head(cat)) \o AllUrls(Tail(cat))

Range(s) == {s[k] : k \in DOMAIN s}

(***************************************************************************)
(* lpdaac_subset_gedi: the spatial flag.                                   *)
(***************************************************************************)
\* A float of --bbox is the whole number of 1e-7 degrees it holds, and a
\* text is the sequence of its characters.
Digit(d) == ToString(d)

\* the decimal digits of a natural number
RECURSIVE Digits(_)
Digits(n) ==
    IF n < 10 THEN <<Digit(n)>> ELSE Append(Digits(n \div 10), Digit(n % 10))

\* '{:f}'.format(x): the sign, the whole part, "." and six decimals, rounded
\* to the nearest (the boxes tried have no seventh decimal of 5)
format_f(x) ==
    LET a == IF x < 0 THEN 0 - x ELSE x
        micro == (a + 5) \div 10
    IN  (IF x < 0 THEN <<"-">> ELSE <<>>)
        \o Digits(micro \div 1000000) \o <<".">>
        \o [k \in 1..6 |-> Digit((micro \div 10^(6 - k)) % 10)]

\* the four values in the order they were given: '{0:f},{1:f},{2:f},{3:f}'
bounds_flag_as_given(BBOX) ==
    format_f(BBOX[1]) \o <<",">> \o format_f(BBOX[2]) \o <<",">>
    \o format_f(BBOX[3]) \o <<",">> \o format_f(BBOX[4])

\* bounds_flag = '{1:f},{0:f},{3:f},{2:f}'.format(*BBOX)
bounds_flag(BBOX) ==
    format_f(BBOX[2]) \o <<",">> \o format_f(BBOX[1]) \o <<",">>
    \o format_f(BBOX[4]) \o <<",">> \o format_f(BBOX[3])

\* build_version_query(version, desired_pad_length=3)
desired_pad_length == 3

\* int(version) of a text of decimal digits
RECURSIVE int(_)
int(version) ==
    IF version = <<>> THEN 0
    ELSE 10 * int(SubSeq(version, 1, Len(version) - 1))
         + (CHOOSE d \in 0..9 : Digit(d) = version[Len(version)])

\* str(version) of a number that is not negative
str(version) == Digits(version)

\* s.zfill(width)
zfill(s, width) ==
    IF Len(s) >= width THEN s ELSE [k \in 1..(width - Len(s)) |-> "0"] \o s

\* the exception of build_version_query
VersionTooLong == <<"Version string too long">>

\* a loop that stops one width early: while len(str(version)) < pad
RECURSIVE version_loop_strict(_, _)
version_loop_strict(version, pad) ==
    IF Len(str(version)) < pad
    THEN <<"&version=">> \o zfill(str(version), pad)
         \o version_loop_strict(version, pad - 1)
    ELSE <<>>

\* while (len(str(version)) <= desired_pad_length): ...; the text returned
RECURSIVE version_loop(_, _)
version_loop(version, pad) ==
    IF Len(str(version)) <= pad
    THEN <<"&version=">> \o zfill(str(version), pad)
         \o version_loop(version, pad - 1)
    ELSE <<>>

build_version_query(version) ==
    IF Len(version) > desired_pad_length
    THEN VersionTooLong
    ELSE version_loop(int(version), desired_pad_length)

\* the --version strings tried: texts of the digits 0 and 2, '' among them
Versions == SeqsUpTo({"0", "2"}, MaxVersionLen)

\* --version of main by default: '002'
DefaultVersion == <<"0", "0", "2">>

\* BBOX=None and POLYGON=None: no --bbox, no --polygon (both falsy)
NoBox == <<>>

NoPolygon == <<>>

\* a --polygon path is its root and its extension: os.path.splitext(POLYGON)
splitext(POLYGON) == POLYGON[2]

\* the extensions with a reader
ListedExtensions == {".shp", ".zip", ".kml", ".kmz", ".json", ".geojson"}

\* polygon_flag: the text of the exterior ring of the convex hull of the file
polygon_flag(POLYGON) == <<"hull of ", POLYGON[1]>>

\* the boxes (lat_min, lon_min, lat_max, lon_max) tried: the one of the
\* documented scenario, one with seven decimals, one across the equator and
\* the meridian with a value that rounds to zero
Boxes ==
    { <<400000000, -1000000000, 420000000, -960000000>>,
      <<401234567, -1000000004, 420000000, -960000000>>,
      <<-4, -15000000, 125000000, 3>> }

\* the --polygon files tried
Polygons == {<<"poly", ".shp">>, <<"poly", ".geojson">>, <<"poly", ".txt">>}

\* spatial_flag before it is assigned
Unbound == <<"unbound">>

\* timeout=20 of the urlopen of the search; a timeout argument is the tuple
\* of its seconds, empty for timeout=None
search_timeout == <<20>>

\* timeout=None, the default of compare_checksums, which no caller overrides
compare_checksums_timeout == <<>>

\* timeout=None, the default of from_lpdaac, which no caller overrides
from_lpdaac_timeout == <<>>

\* an HTTP call and the timeout it is issued with
Request(call, timeout) == [call |-> call, timeout |-> timeout]

(***************************************************************************)
(* State.                                                                  *)
(***************************************************************************)
VARIABLES
    PROCESSES,      \* argument of lpdaac_subset_gedi (--np)
    VERSION,        \* argument of lpdaac_subset_gedi (--version)
    BBOX,           \* argument of lpdaac_subset_gedi (--bbox)
    POLYGON,        \* argument of lpdaac_subset_gedi (--polygon)
    catalog,        \* the remote catalog (unchanged during a behaviour)
    stale,          \* granules whose .xml declares the checksum of OldBytes
    local,          \* the local files, by local path
    second,         \* TRUE in the second run with the same arguments
    pc,             \* "Spatial", "Searching", "SerialSync", "ParallelSync",
                    \* "Collecting", "Done", or "Aborted" by an uncaught
                    \* exception
    version_flag,   \* version_flag
    spatial_flag,   \* spatial_flag
    requests,       \* the HTTP calls issued in this run, with their timeout
    sent,           \* the cmr-scroll-id header of each page request of this
                    \* run, in order (None: no such header)
    err,            \* the uncaught exception, "" when there is none
    granules,       \* granules
    cmr_scroll_id,  \* cmr_scroll_id
    hits,           \* hits
    nPage,          \* page requests issued in this run
    i,              \* position of the for loop over granules / over output
    unit,           \* per granule: progress of its unit and, in parallel
                    \* mode, the value of its AsyncResult
    logged,         \* the values given to logging.info(out), in order
    faults,         \* network failures injected so far
    firstClean      \* the first run ended Done with no unit failed

vars == <<PROCESSES, VERSION, BBOX, POLYGON, catalog, stale, local, second,
          pc, version_flag, spatial_flag, requests, sent, err, granules,
          cmr_scroll_id, hits, nPage, i, unit, logged, faults, firstClean>>

env == <<PROCESSES, VERSION, BBOX, POLYGON, catalog, stale>>

\* what the search and the sync leave alone
resolved == <<env, version_flag, spatial_flag>>

\* a unit that has not started:
\*   st  : "new", "queued" (submitted to the pool), "fetch" (compare_checksums
\*         returned False, from_lpdaac is next), "done"
\*   cmp : what compare_checksums did: "none", "true", "false", "raise"
\*   seen: the local file that get_hash of compare_checksums read
\*   get : what from_lpdaac did: "none", "ok", "openfail", "copyfail"
\*   res : the AsyncResult: "pending", "str", "None", "exc"
NewUnit ==
    [st |-> "new", cmp |-> "none", seen |-> NoFile, get |-> "none",
     res |-> "pending"]

N == Len(granules)

ProcessesSet == (-1)..MaxProcesses

Paths(cat) == {local_path(u) : u \in Range(AllUrls(cat))}

StaleSets(cat) == {{}} \cup {{u} : u \in Range(AllUrls(cat))}

Start ==
    /\ pc = "Spatial"
    /\ version_flag = Unbound
    /\ spatial_flag = Unbound
    /\ requests = {}
    /\ sent = <<>>
    /\ err = ""
    /\ granules = <<>>
    /\ cmr_scroll_id = None
    /\ hits = 0
    /\ nPage = 0
    /\ i = 1
    /\ unit = <<>>
    /\ logged = <<>>

\* the sync specification: one page of granules, any local files, any pool
Init ==
    /\ PROCESSES \in ProcessesSet
    /\ VERSION = DefaultVersion
    /\ BBOX = NoBox
    /\ POLYGON = NoPolygon
    /\ catalog \in SyncCatalogs
    /\ stale \in StaleSets(catalog)
    /\ local \in [Paths(catalog) -> {NoFile, OldBytes}]
    /\ second = FALSE
    /\ faults = 0
    /\ firstClean = FALSE
    /\ Start

\* the search specification: any catalog, no local files, serial, one worker
\* or a pool size that Pool refuses
InitSearch ==
    /\ PROCESSES \in (-1)..1
    /\ VERSION = DefaultVersion
    /\ BBOX = NoBox
    /\ POLYGON = NoPolygon
    /\ catalog \in SearchCatalogs
    /\ stale = {}
    /\ local = [p \in Paths(catalog) |-> NoFile]
    /\ second = FALSE
    /\ faults = 0
    /\ firstClean = FALSE
    /\ Start

\* the configuration specification: any bounding box and polygon file, two
\* granules to fetch, serial or the largest pool
InitConfig ==
    /\ PROCESSES \in {0, MaxProcesses}
    /\ VERSION = DefaultVersion
    /\ BBOX \in {NoBox} \cup Boxes
    /\ POLYGON \in {NoPolygon} \cup Polygons
    /\ catalog = <<Page(<<DataEntry(U1), DataEntry(U2)>>)>>
    /\ stale = {}
    /\ local = [p \in Paths(catalog) |-> NoFile]
    /\ second = FALSE
    /\ faults = 0
    /\ firstClean = FALSE
    /\ Start

\* the version specification: any --version string, two granules to fetch,
\* serial or the largest pool
InitVersion ==
    /\ PROCESSES \in {0, MaxProcesses}
    /\ VERSION \in Versions
    /\ BBOX = NoBox
    /\ POLYGON = NoPolygon
    /\ catalog = <<Page(<<DataEntry(U1), DataEntry(U2)>>)>>
    /\ stale = {}
    /\ local = [p \in Paths(catalog) |-> NoFile]
    /\ second = FALSE
    /\ faults = 0
    /\ firstClean = FALSE
    /\ Start

\* the pagination specification: serial or one worker, no local files, and
\* one network failure less than elsewhere
InitPaging ==
    /\ PROCESSES \in 0..1
    /\ VERSION = DefaultVersion
    /\ BBOX = NoBox
    /\ POLYGON = NoPolygon
    /\ catalog \in PagedCatalogs
    /\ stale = {}
    /\ local = [p \in Paths(catalog) |-> NoFile]
    /\ second = FALSE
    /\ faults = 1
    /\ firstClean = FALSE
    /\ Start

(***************************************************************************)
(* The two network helpers of utilities.py.                                *)
(***************************************************************************)
\* the text of //DataFileContainer/Checksum in <granule>.xml
RemoteHash(granule) ==
    IF granule \in stale THEN md5(OldBytes) ELSE md5(RemoteBytes(granule))

\* a comparison that only looks whether the local file is there
compare_checksums_exists(granule, files) ==
    files[local_path(granule)] # NoFile

\* compare_checksums, once the .xml has been read: local_hash == remote_hash
compare_checksums(granule, files) ==
    get_hash(files[local_path(granule)]) = RemoteHash(granule)

\* a transfer that always stops part way
from_lpdaac_partial(granule, files, outcome) ==
    [files EXCEPT ![local_path(granule)] = PartialBytes(granule)]

\* from_lpdaac: the local files it leaves behind.
\*   "openfail": urlopen raises, nothing is written
\*   "copyfail": open(local_file,'wb') then copyfileobj raises part way
\*   "ok"      : the whole body is written
from_lpdaac(granule, files, outcome) ==
    CASE outcome = "openfail" -> files
      [] outcome = "copyfail" ->
            [files EXCEPT ![local_path(granule)] = PartialBytes(granule)]
      [] OTHER -> [files EXCEPT ![local_path(granule)] = RemoteBytes(granule)]

Outcomes == {"ok", "openfail", "copyfail"}

(***************************************************************************)
(* lpdaac_subset_gedi: the spatial subset, a bounding box or a polygon.    *)
(***************************************************************************)
\* if BBOX: ... elif POLYGON: ... else: spatial_flag = ''
\* before it: version_flag = build_version_query(VERSION) if VERSION else ''
SpatialFlags ==
    /\ pc = "Spatial"
    /\ LET flag == IF VERSION # <<>> THEN build_version_query(VERSION)
                   ELSE <<>>
       IN  IF flag = VersionTooLong
           THEN /\ version_flag' = version_flag
                /\ spatial_flag' = spatial_flag
                /\ pc' = "Aborted" /\ err' = "Version string too long"
           ELSE /\ version_flag' = flag
                /\ IF BBOX # NoBox
                   THEN /\ spatial_flag' =
                              <<"&bounding_box=">> \o bounds_flag(BBOX)
                        /\ pc' = "Searching" /\ err' = err
                   ELSE IF POLYGON # NoPolygon
                   THEN IF splitext(POLYGON) \in ListedExtensions
                        THEN /\ spatial_flag' =
                                   <<"&polygon[]=">> \o polygon_flag(POLYGON)
                             /\ pc' = "Searching" /\ err' = err
                        ELSE /\ spatial_flag' = spatial_flag
                             /\ pc' = "Aborted" /\ err' = "IOError"
                   ELSE /\ spatial_flag' = <<>>
                        /\ pc' = "Searching" /\ err' = err
    /\ UNCHANGED <<env, sent, requests, local, second, granules, cmr_scroll_id,
                   hits, nPage, i, unit, logged, faults, firstClean>>

(***************************************************************************)
(* lpdaac_subset_gedi: the search loop.                                    *)
(***************************************************************************)
\* an empty granule list taken for an error
AfterSearchEmptyRaises(g) ==
    /\ unit' = [k \in DOMAIN g |-> NewUnit]
    /\ i' = 1
    /\ pc' = CASE g = <<>> -> "Aborted"
               [] PROCESSES = 0 /\ g # <<>> -> "SerialSync"
               [] PROCESSES < 0 -> "Aborted"
               [] OTHER -> "ParallelSync"
    /\ err' = CASE g = <<>> -> "no granules"
                [] PROCESSES < 0 -> "ValueError"
                [] OTHER -> err

\* what follows the while loop: the serial for loop, or the Pool
AfterSearch(g) ==
    /\ unit' = [k \in DOMAIN g |-> NewUnit]
    /\ i' = 1
    /\ pc' = CASE PROCESSES = 0 /\ g = <<>> -> "Done"
               [] PROCESSES = 0 /\ g # <<>> -> "SerialSync"
               [] PROCESSES < 0 -> "Aborted"
               [] OTHER -> "ParallelSync"
    /\ err' = IF PROCESSES < 0 THEN "ValueError" ELSE err

\* the cmr-scroll-id header of the n-th response of a scroll session: the
\* session token, or another one that a catalog may put on later responses
ResponseToken(n) == IF n = 1 THEN ScrollToken ELSE "scroll-2"

\* the header of every response is taken as the token to send next
scroll_id_reread(current, token) == token

\* if not cmr_scroll_id: cmr_scroll_id = headers['cmr-scroll-id']
scroll_id_after(current, token) == IF current = None THEN token ELSE current

\* one round of the while loop whose urlopen answers
SearchPage ==
    /\ pc = "Searching"
    /\ LET search_page == PageAt(catalog, nPage + 1)
           url_scroll_results == cmr_filter_json(search_page)
       IN  /\ nPage' = nPage + 1
           /\ requests' = requests \cup {Request("search", search_timeout)}
           /\ sent' = Append(sent, cmr_scroll_id)
           /\ cmr_scroll_id' =
                 scroll_id_after(cmr_scroll_id, ResponseToken(nPage + 1))
           /\ hits' = IF cmr_scroll_id = None THEN Hits(catalog) ELSE hits
           /\ IF url_scroll_results = <<>>
              THEN granules' = granules /\ AfterSearch(granules)
              ELSE /\ granules' = granules \o url_scroll_results
                   /\ UNCHANGED <<pc, err, i, unit>>
    /\ UNCHANGED <<resolved, local, second, logged, faults, firstClean>>

\* the failed request is caught and the loop left with what was found so far
SearchFailSwallowed ==
    /\ pc = "Searching"
    /\ faults < MaxFaults
    /\ faults' = faults + 1
    /\ nPage' = nPage + 1
    /\ requests' = requests \cup {Request("search", search_timeout)}
    /\ sent' = Append(sent, cmr_scroll_id)
    /\ AfterSearch(granules)
    /\ UNCHANGED <<resolved, local, second, granules, cmr_scroll_id, hits,
                   logged, firstClean>>

\* one round of the while loop whose urlopen raises: nothing catches it
SearchFail ==
    /\ pc = "Searching"
    /\ faults < MaxFaults
    /\ faults' = faults + 1
    /\ nPage' = nPage + 1
    /\ requests' = requests \cup {Request("search", search_timeout)}
    /\ sent' = Append(sent, cmr_scroll_id)
    /\ pc' = "Aborted"
    /\ err' = "SearchError"
    /\ UNCHANGED <<resolved, local, second, granules, cmr_scroll_id, hits, i,
                   unit, logged, firstClean>>

(***************************************************************************)
(* lpdaac_subset_gedi: sync in series (PROCESSES == 0).                    *)
(***************************************************************************)
\* the for loop moves to the next granule, or ends
SerialAdvance ==
    /\ pc' = IF i = N THEN "Done" ELSE pc
    /\ i' = IF i = N THEN i ELSE i + 1
    /\ err' = err

\* an exception leaves lpdaac_subset_gedi
Raise(e) ==
    /\ pc' = "Aborted"
    /\ err' = e
    /\ i' = i

SerialCompare ==
    /\ pc = "SerialSync"
    /\ unit[i].st = "new"
    /\ requests' = requests \cup {Request("xml", compare_checksums_timeout)}
    /\ \/ /\ faults < MaxFaults
          /\ faults' = faults + 1
          /\ unit' = [unit EXCEPT ![i].cmp = "raise", ![i].st = "done"]
          /\ Raise("XML download error")
       \/ /\ faults' = faults
          /\ LET seen == local[local_path(granules[i])]
             IN  IF compare_checksums(granules[i], local)
                 THEN /\ unit' = [unit EXCEPT ![i].cmp = "true",
                                              ![i].seen = seen,
                                              ![i].st = "done"]
                      /\ SerialAdvance
                 ELSE /\ unit' = [unit EXCEPT ![i].cmp = "false",
                                              ![i].seen = seen,
                                              ![i].st = "fetch"]
                      /\ UNCHANGED <<pc, i, err>>
    /\ UNCHANGED <<resolved, sent, local, second, granules, cmr_scroll_id,
                   hits, nPage, logged, firstClean>>

\* a loop that fetches every granule without comparing checksums first
SerialDownloadUnverified ==
    /\ pc = "SerialSync"
    /\ unit[i].st \in {"new", "fetch"}
    /\ requests' = requests \cup {Request("download", from_lpdaac_timeout)}
    /\ \E outcome \in Outcomes :
          /\ outcome # "ok" => faults < MaxFaults
          /\ faults' = IF outcome = "ok" THEN faults ELSE faults + 1
          /\ local' = from_lpdaac(granules[i], local, outcome)
          /\ unit' = [unit EXCEPT ![i].get = outcome, ![i].st = "done"]
          /\ IF outcome = "ok"
             THEN logged' = Append(logged, "str") /\ SerialAdvance
             ELSE /\ logged' = logged
                  /\ Raise(IF outcome = "openfail" THEN "Download error"
                           ELSE "copy error")
    /\ UNCHANGED <<resolved, sent, second, granules, cmr_scroll_id, hits,
                   nPage, firstClean>>

SerialDownload ==
    /\ pc = "SerialSync"
    /\ unit[i].st = "fetch"
    /\ requests' = requests \cup {Request("download", from_lpdaac_timeout)}
    /\ \E outcome \in Outcomes :
          /\ outcome # "ok" => faults < MaxFaults
          /\ faults' = IF outcome = "ok" THEN faults ELSE faults + 1
          /\ local' = from_lpdaac(granules[i], local, outcome)
          /\ unit' = [unit EXCEPT ![i].get = outcome, ![i].st = "done"]
          /\ IF outcome = "ok"
             THEN logged' = Append(logged, "str") /\ SerialAdvance
             ELSE /\ logged' = logged
                  /\ Raise(IF outcome = "openfail" THEN "Download error"
                           ELSE "copy error")
    /\ UNCHANGED <<resolved, sent, second, granules, cmr_scroll_id, hits,
                   nPage, firstClean>>

(***************************************************************************)
(* lpdaac_subset_gedi: sync in parallel, and multiprocess_sync.            *)
(***************************************************************************)
\* output.append(pool.apply_async(multiprocess_sync, ...))
Submit ==
    /\ pc = "ParallelSync"
    /\ i <= N
    /\ unit' = [unit EXCEPT ![i].st = "queued"]
    /\ i' = i + 1
    /\ UNCHANGED <<resolved, sent, requests, local, second, pc, err, granules,
                   cmr_scroll_id, hits, nPage, logged, faults, firstClean>>

\* the units a worker has in hand
Running == {k \in DOMAIN unit : unit[k].st = "fetch"}

\* multiprocess_sync without its try: the exception reaches the AsyncResult
WorkerResultUncaught(outcome) == IF outcome = "ok" THEN "str" ELSE "exc"

\* the AsyncResult of a unit whose from_lpdaac went as outcome: the try of
\* multiprocess_sync returns output, its bare except logs and returns None
WorkerResult(outcome) == IF outcome = "ok" THEN "str" ELSE "None"

\* a pool that starts a queued unit whether or not a worker is free
WorkerCompareNoLimit(k) ==
    /\ pc = "ParallelSync"
    /\ unit[k].st = "queued"
    /\ \A j \in 1..(k - 1) : unit[j].st # "queued"
    /\ requests' = requests \cup {Request("xml", compare_checksums_timeout)}
    /\ \/ /\ faults < MaxFaults
          /\ faults' = faults + 1
          /\ unit' = [unit EXCEPT ![k].cmp = "raise", ![k].st = "done",
                                  ![k].res = "exc"]
       \/ /\ faults' = faults
          /\ LET seen == local[local_path(granules[k])]
             IN  IF compare_checksums(granules[k], local)
                 THEN unit' = [unit EXCEPT ![k].cmp = "true", ![k].seen = seen,
                                           ![k].st = "done", ![k].res = "None"]
                 ELSE unit' = [unit EXCEPT ![k].cmp = "false", ![k].seen = seen,
                                           ![k].st = "fetch"]
    /\ UNCHANGED <<resolved, sent, local, second, pc, err, granules,
                   cmr_scroll_id, hits, nPage, i, logged, firstClean>>

\* a free worker takes the oldest queued unit and runs compare_checksums
WorkerCompare(k) ==
    /\ pc = "ParallelSync"
    /\ unit[k].st = "queued"
    /\ \A j \in 1..(k - 1) : unit[j].st # "queued"
    /\ Cardinality(Running) < PROCESSES
    /\ requests' = requests \cup {Request("xml", compare_checksums_timeout)}
    /\ \/ /\ faults < MaxFaults
          /\ faults' = faults + 1
          /\ unit' = [unit EXCEPT ![k].cmp = "raise", ![k].st = "done",
                                  ![k].res = "exc"]
       \/ /\ faults' = faults
          /\ LET seen == local[local_path(granules[k])]
             IN  IF compare_checksums(granules[k], local)
                 THEN unit' = [unit EXCEPT ![k].cmp = "true", ![k].seen = seen,
                                           ![k].st = "done", ![k].res = "None"]
                 ELSE unit' = [unit EXCEPT ![k].cmp = "false", ![k].seen = seen,
                                           ![k].st = "fetch"]
    /\ UNCHANGED <<resolved, sent, local, second, pc, err, granules,
                   cmr_scroll_id, hits, nPage, i, logged, firstClean>>

\* the worker goes on to from_lpdaac inside the try
WorkerDownload(k) ==
    /\ pc = "ParallelSync"
    /\ unit[k].st = "fetch"
    /\ requests' = requests \cup {Request("download", from_lpdaac_timeout)}
    /\ \E outcome \in Outcomes :
          /\ outcome # "ok" => faults < MaxFaults
          /\ faults' = IF outcome = "ok" THEN faults ELSE faults + 1
          /\ local' = from_lpdaac(granules[k], local, outcome)
          /\ unit' = [unit EXCEPT ![k].get = outcome, ![k].st = "done",
                                  ![k].res = WorkerResult(outcome)]
    /\ UNCHANGED <<resolved, sent, second, pc, err, granules, cmr_scroll_id,
                   hits, nPage, i, logged, firstClean>>

\* a join that returns as soon as every granule has been submitted
JoinWithoutWait ==
    /\ pc = "ParallelSync"
    /\ i > N
    /\ pc' = IF N = 0 THEN "Done" ELSE "Collecting"
    /\ i' = 1
    /\ UNCHANGED <<resolved, sent, requests, local, second, err, granules,
                   cmr_scroll_id, hits, nPage, unit, logged, faults,
                   firstClean>>

\* pool.close(); pool.join(): returns when every unit has run
Join ==
    /\ pc = "ParallelSync"
    /\ i > N
    /\ \A k \in DOMAIN unit : unit[k].st = "done"
    /\ pc' = IF N = 0 THEN "Done" ELSE "Collecting"
    /\ i' = 1
    /\ UNCHANGED <<resolved, sent, requests, local, second, err, granules,
                   cmr_scroll_id, hits, nPage, unit, logged, faults,
                   firstClean>>

\* logging.info(out.get()): get() raises again what the unit raised
Collect ==
    /\ pc = "Collecting"
    /\ IF unit[i].res = "exc"
       THEN logged' = logged /\ Raise("XML download error")
       ELSE logged' = Append(logged, unit[i].res) /\ SerialAdvance
    /\ UNCHANGED <<resolved, sent, requests, local, second, granules,
                   cmr_scroll_id, hits, nPage, unit, faults, firstClean>>

(***************************************************************************)
(* The program is run a second time with the same arguments.               *)
(***************************************************************************)
Rerun ==
    /\ pc = "Done"
    /\ ~second
    /\ second' = TRUE
    /\ firstClean' = \A k \in DOMAIN unit : unit[k].get \in {"none", "ok"}
    /\ pc' = "Spatial"
    /\ version_flag' = Unbound
    /\ spatial_flag' = Unbound
    /\ requests' = {}
    /\ sent' = <<>>
    /\ err' = ""
    /\ granules' = <<>>
    /\ cmr_scroll_id' = None
    /\ hits' = 0
    /\ nPage' = 0
    /\ i' = 1
    /\ unit' = <<>>
    /\ logged' = <<>>
    /\ UNCHANGED <<env, local, faults>>

Next ==
    \/ SpatialFlags
    \/ SearchPage
    \/ SearchFail
    \/ SerialCompare
    \/ SerialDownload
    \/ Submit
    \/ \E k \in DOMAIN unit : WorkerCompare(k)
    \/ \E k \in DOMAIN unit : WorkerDownload(k)
    \/ Join
    \/ Collect
    \/ Rerun

Spec == Init /\ [][Next]_vars

SpecSearch == InitSearch /\ [][Next]_vars

SpecPaging == InitPaging /\ [][Next]_vars

SpecConfig == InitConfig /\ [][Next]_vars

SpecVersion == InitVersion /\ [][Next]_vars

(***************************************************************************)
(* Properties.                                                             *)
(***************************************************************************)
\* from_lpdaac of unit k raised
Failed(k) == unit[k].get \in {"openfail", "copyfail"}

\* the unit of granule k has been executed (its compare_checksums was called)
Executed(k) == unit[k].cmp # "none"

Terminal == pc \in {"Done", "Aborted"}

\* C1: in serial mode, when the download of granule k fails, the unit of every
\* granule after k is still executed: once the run has ended, no granule
\* after a failed one is left unexecuted.
C1_SerialContinuesAfterFailure ==
    (PROCESSES = 0 /\ Terminal) =>
        \A k \in DOMAIN unit : Failed(k) =>
            \A j \in (k + 1)..N : Executed(j)

\* C2: in parallel mode a download failure inside a worker's unit is caught in
\* that worker and becomes the unit's result (None); the orchestrator is never
\* aborted by it (an abort while collecting comes from a unit whose
\* compare_checksums raised), and once the orchestrator is past the join
\* every submitted unit has run to completion.
C2_WorkerFailureContained ==
    PROCESSES > 0 =>
        \A k \in DOMAIN unit : Failed(k) =>
            /\ unit[k].st = "done" /\ unit[k].res = "None"
            /\ err \notin {"Download error", "copy error"}
            /\ pc = "Aborted" => (unit[i].res = "exc" /\ unit[i].cmp = "raise")
            /\ pc \in {"Collecting", "Done", "Aborted"} =>
                  \A j \in DOMAIN unit : unit[j].st = "done"

\* a parallel run that ended Done, all results collected, with one unit whose
\* download failed and another whose download succeeded
C2_Witness ==
    /\ PROCESSES > 0
    /\ pc = "Done"
    /\ Len(logged) = N
    /\ \E k, j \in DOMAIN unit : Failed(k) /\ unit[j].get = "ok"

ExactlyOneDownloadRaised ==
    /\ Cardinality({k \in DOMAIN unit : Failed(k)}) = 1
    /\ \A k \in DOMAIN unit : unit[k].cmp # "raise"

\* C3: when exactly one granule's download raises and the orchestrator reaches
\* Done, the result set has N entries and exactly one of them is marked
\* Failed: the entry of the failed unit carries a value that no other entry
\* (Downloaded or Skipped-Already-Valid) carries.
C3_OneFailedAmongN ==
    (pc = "Done" /\ ExactlyOneDownloadRaised) =>
        /\ Len(logged) = N
        /\ \A k \in DOMAIN unit : Failed(k) =>
              \A j \in DOMAIN unit \ {k} : logged[j] # logged[k]

\* C4: when compare_checksums fails for one granule (and no download fails),
\* the units of the sibling granules are all executed and, in parallel mode,
\* the orchestrator processes all their results.
C4_ChecksumFailureIsolated ==
    (/\ Terminal
     /\ \E k \in DOMAIN unit : unit[k].cmp = "raise"
     /\ \A k \in DOMAIN unit : ~Failed(k)) =>
        /\ \A j \in DOMAIN unit : Executed(j)
        /\ PROCESSES > 0 => Len(logged) = N

\* the search loop has ended without a failed page request
SearchEnded == pc \notin {"Spatial", "Searching"} /\ err # "SearchError"

\* a checksum-descriptor fetch or a download has been issued in this run
SyncIssued == \E k \in DOMAIN unit : Executed(k)

\* the first request of a scroll session, from the n-th on, whose page yields
\* no data-file url
RECURSIVE FirstEmpty(_, _)
FirstEmpty(cat, n) ==
    IF cmr_filter_json(PageAt(cat, n)) = <<>> THEN n ELSE FirstEmpty(cat, n + 1)

\* C5: every catalog page request of the search precedes every checksum fetch
\* and download: when one of these has been issued, no page request failed,
\* the granule list is the whole list of the pages up to the one that ended
\* the search (never a partial list), and no page request is issued once a
\* unit has been executed.
C5_SearchBeforeSync ==
    /\ [](SyncIssued =>
            /\ err # "SearchError"
            /\ nPage = FirstEmpty(catalog, 1)
            /\ granules = AllUrls(SubSeq(catalog, 1, nPage - 1)))
    /\ [][nPage' > nPage => (~SyncIssued /\ ~SyncIssued')]_vars

\* a search of three pages ended and the sync that followed downloaded a file
C5_Witness ==
    /\ nPage = 3
    /\ pc = "Done"
    /\ \E k \in DOMAIN unit : unit[k].get = "ok"

\* C6: with pages of page_size, page_size, page_size, 3 and 0 distinct
\* data-file urls the search returns 3*page_size + 3 distinct granules and
\* issues 5 page requests.
C6_PaginationComplete ==
    SearchEnded =>
        LET ps == Len(Entries(catalog[1]))
        IN  /\ Len(granules) = 3 * ps + 3
            /\ Cardinality(Range(granules)) = Len(granules)
            /\ nPage = 5

\* the search over full pages of three granules has ended
C6_Witness ==
    /\ SearchEnded
    /\ Len(Entries(catalog[1])) = 3
    /\ Len(granules) = 12
    /\ nPage = 5

\* C7: no page request is issued once the accumulated granule count has
\* reached the hit count advertised by the first response.
C7_StopsAtHits ==
    [][nPage' = nPage + 1 => ~(cmr_scroll_id # None /\ Len(granules) >= hits)]_vars

\* a sequence without its repeated elements, first occurrences kept
RECURSIVE Dedup(_)
Dedup(s) ==
    IF s = <<>> THEN <<>>
    ELSE LET d == Dedup(SubSeq(s, 1, Len(s) - 1))
         IN  IF s[Len(s)] \in Range(d) THEN d ELSE Append(d, s[Len(s)])

\* C8: the granule list holds the data-file url of every matching granule of
\* every page of the catalog exactly once, in catalog order.
C8_CompleteNoDuplicates ==
    SearchEnded => granules = Dedup(AllUrls(catalog))

\* the catalog has an entry with no link of the expected type
HasOtherEntry(cat) ==
    \E p \in DOMAIN cat : \E e \in DOMAIN Entries(cat[p]) :
        filter_links(Entries(cat[p])[e].links) = <<>>

\* C9: an entry with no link of the expected type is skipped, and the data
\* files of the other entries, on its page and on later pages, are all
\* returned.
C9_SkipKeepsOthers ==
    (SearchEnded /\ HasOtherEntry(catalog)) => granules = AllUrls(catalog)

\* no two granules of the list share a local path
PathsDistinct ==
    \A u, v \in Range(granules) : local_path(u) = local_path(v) => u = v

\* the second run makes no transfer: no compare_checksums returns False, no
\* from_lpdaac is called, and at Done every compare_checksums returned True
NoTransfer ==
    /\ \A k \in DOMAIN unit : unit[k].get = "none" /\ unit[k].cmp # "false"
    /\ pc = "Done" => \A k \in DOMAIN unit : unit[k].cmp = "true"

\* C10 as stated: after a first run that ended with every granule
\* downloaded or valid, a second run with the same arguments makes no transfer.
C10_Idempotent == (second /\ firstClean) => NoTransfer

\* C10 amended: the same, provided every .xml declares the MD5 of the remote
\* file it describes and no two granules of the list share a local path.
C10_IdempotentConsistent ==
    (second /\ firstClean /\ stale = {} /\ PathsDistinct) => NoTransfer

\* a second run over two granules that the first run downloaded, ended Done
C10_Witness ==
    /\ second /\ firstClean /\ stale = {} /\ PathsDistinct
    /\ pc = "Done"
    /\ N = 2
    /\ \A k \in DOMAIN unit : unit[k].cmp = "true"
    /\ \A p \in DOMAIN local : local[p] \notin {NoFile, OldBytes}

\* compare_checksums of unit k found a local file whose hash was not the one
\* the .xml declared
Mismatched(k) ==
    /\ unit[k].cmp \in {"true", "false"}
    /\ unit[k].seen # NoFile
    /\ get_hash(unit[k].seen) # RemoteHash(granules[k])

\* C11: a granule whose local file exists with another hash than the declared
\* one is downloaded, not skipped (compare_checksums returns False and the
\* unit does not end without from_lpdaac), and if the transfer succeeded the
\* local file holds the bytes of the remote file when the run has ended.
C11_MismatchRedownloads ==
    \A k \in DOMAIN unit : Mismatched(k) =>
        /\ unit[k].cmp = "false"
        /\ unit[k].st = "done" => unit[k].get # "none"
        /\ (Terminal /\ unit[k].get = "ok") =>
              local[local_path(granules[k])] = RemoteBytes(granules[k])

\* C12: compare_checksums returns True if and only if the local file exists
\* and the MD5 of its content is the hash the descriptor declares; when the
\* local file is absent it returns False, whatever the descriptor declares.
C12_CompareIffPresentAndEqual ==
    \A k \in DOMAIN unit : unit[k].cmp \in {"true", "false"} =>
        /\ unit[k].cmp = "true" <=>
              (unit[k].seen # NoFile
               /\ md5(unit[k].seen) = RemoteHash(granules[k]))
        /\ unit[k].seen = NoFile => unit[k].cmp = "false"

\* one run in which compare_checksums returned True for a local file that
\* matches, False for an absent file
C12_Witness ==
    \E k, j \in DOMAIN unit :
        /\ unit[k].cmp = "true" /\ unit[k].seen # NoFile
        /\ unit[j].cmp = "false" /\ unit[j].seen = NoFile

\* from_lpdaac of unit k returns its description in this step
Downloads(k) ==
    /\ k \in DOMAIN unit /\ k \in DOMAIN unit'
    /\ unit[k].get = "none" /\ unit'[k].get = "ok"

\* C13 as stated: once from_lpdaac(remote_file, local_file) has returned its
\* description, compare_checksums(remote_file + '.xml', local_file) is True.
C13_DownloadThenVerify ==
    [][\A k \in 1..MaxGranules : Downloads(k) =>
            compare_checksums(granules[k], local')]_vars

\* C13 amended: the same, provided the .xml declares the MD5 of the remote
\* file it describes.
C13_DownloadThenVerifyConsistent ==
    [][\A k \in 1..MaxGranules : (Downloads(k) /\ granules[k] \notin stale) =>
            compare_checksums(granules[k], local')]_vars

\* a granule with a consistent .xml has been downloaded over an older file
\* and its checksums compare equal
C13_Witness ==
    \E k \in DOMAIN unit :
        /\ unit[k].get = "ok" /\ unit[k].seen = OldBytes
        /\ granules[k] \notin stale
        /\ compare_checksums(granules[k], local)

\* both a bounding box and a polygon file are given
BothFilters == BBOX # NoBox /\ POLYGON # NoPolygon

\* a polygon file is given and its extension has no reader
UnlistedPolygon ==
    POLYGON # NoPolygon /\ splitext(POLYGON) \notin ListedExtensions

\* C14: with both a bounding box and a polygon, or with a polygon file of an
\* unsupported extension, the run ends with a configuration error before any
\* catalog request, checksum fetch or download is issued.
C14_BadFiltersRejected ==
    (BothFilters \/ UnlistedPolygon) =>
        /\ requests = {}
        /\ pc # "Spatial" => (pc = "Aborted" /\ err = "IOError")

\* the orchestrator of a parallel run is reading the results, or has read
\* some: it is in the loop over output, has logged a result, or out.get()
\* has raised
Aggregating ==
    /\ PROCESSES > 0
    /\ pc = "Collecting" \/ logged # <<>> \/ err = "XML download error"

\* C15: in parallel mode no result is read or reported until every submitted
\* unit has completed: while results are aggregated every granule has been
\* submitted and no unit is waiting in the pool or running.
C15_JoinBeforeResults ==
    Aggregating =>
        /\ Len(unit) = N
        /\ \A k \in DOMAIN unit :
              unit[k].st = "done" /\ unit[k].res # "pending"

\* a pool of two has run two units, one of them a download, and the first of
\* the two results has been logged
C15_Witness ==
    /\ PROCESSES = 2 /\ N = 2
    /\ pc = "Collecting" /\ Len(logged) = 1
    /\ \E k \in DOMAIN unit : unit[k].get = "ok"

\* C16: in parallel mode every granule of the list maps to a local path of
\* its own, so no two worker units are writing (are between their
\* compare_checksums and the end of their from_lpdaac on) the same local
\* path at the same time.
C16_NoSharedLocalPath ==
    PROCESSES > 0 =>
        /\ \A k, j \in DOMAIN unit : k # j =>
              local_path(granules[k]) # local_path(granules[j])
        /\ \A k, j \in Running : k # j =>
              local_path(granules[k]) # local_path(granules[j])

\* the checksum fetch or the download of unit k fails in this step
Fails(k) ==
    /\ k \in DOMAIN unit /\ k \in DOMAIN unit'
    /\ \/ unit[k].cmp = "none" /\ unit'[k].cmp = "raise"
       \/ unit[k].get = "none" /\ unit'[k].get \in {"openfail", "copyfail"}

\* C17: when the checksum fetch or the download of granule k fails, the local
\* file of every other unit whose download succeeded in this run is still
\* there, with the content it had.
C17_FailureLeavesOthers ==
    [][\A k \in 1..MaxGranules : Fails(k) =>
          \A j \in DOMAIN unit \ {k} : unit[j].get = "ok" =>
              /\ local'[local_path(granules[j])] # NoFile
              /\ local'[local_path(granules[j])] = local[local_path(granules[j])]
      ]_vars

\* the first page of the catalog yields no data-file url
FirstPageEmpty == cmr_filter_json(PageAt(catalog, 1)) = <<>>

\* the run is past a search of zero granules with nothing but the one page
\* request done: no error, no result, no unit, and the run is at its end or,
\* with a pool, at the join of no unit
EndsEmpty ==
    /\ nPage = 1 /\ granules = <<>>
    /\ err = "" /\ logged = <<>> /\ unit = <<>>
    /\ requests = {Request("search", search_timeout)}
    /\ pc = "Done" \/ (PROCESSES > 0 /\ pc = "ParallelSync" /\ ENABLED Join)

\* C18 as stated: when the first page yields no data-file url the run
\* finishes normally with an empty result set: no error, no checksum fetch,
\* no download, no worker unit.
C18_ZeroMatchesEndsClean == (SearchEnded /\ FirstPageEmpty) => EndsEmpty

\* C18 amended: the same, for a process count that is not negative.
C18_ZeroMatchesEndsCleanPool ==
    (SearchEnded /\ FirstPageEmpty /\ PROCESSES >= 0) => EndsEmpty

\* a run with a pool, whose first page has an entry but no data-file link,
\* has ended
C18_Witness ==
    /\ PROCESSES > 0 /\ pc = "Done" /\ nPage = 1
    /\ Entries(PageAt(catalog, 1)) # <<>>
    /\ FirstPageEmpty

\* the pieces of a text between the commas
RECURSIVE Split(_)
Split(text) ==
    IF \A k \in DOMAIN text : text[k] # ","
    THEN <<text>>
    ELSE LET c == CHOOSE k \in DOMAIN text :
                      text[k] = "," /\ \A m \in 1..(k - 1) : text[m] # ","
         IN  <<SubSeq(text, 1, c - 1)>> \o Split(SubSeq(text, c + 1, Len(text)))

\* the number a sequence of decimal digits writes
RECURSIVE Number(_)
Number(ds) ==
    IF ds = <<>> THEN 0
    ELSE 10 * Number(SubSeq(ds, 1, Len(ds) - 1))
         + (CHOOSE d \in 0..9 : Digit(d) = ds[Len(ds)])

\* the float a decimal text "[-]whole.decimals" writes, in 1e-7 degrees
Float(text) ==
    LET body == IF text[1] = "-" THEN Tail(text) ELSE text
        dot == CHOOSE k \in DOMAIN body : body[k] = "."
        decimals == SubSeq(body, dot + 1, Len(body))
        a == (Number(SubSeq(body, 1, dot - 1)) * 10^Len(decimals)
              + Number(decimals)) * 10^(7 - Len(decimals))
    IN  IF text[1] = "-" THEN 0 - a ELSE a

\* the text as one string
RECURSIVE Text(_)
Text(chars) == IF chars = <<>> THEN "" ELSE Head(chars) \o Text(Tail(chars))

\* a value rounded to six decimals, in 1e-7 degrees
Round6(x) == IF x < 0 THEN 0 - ((5 - x) \div 10) * 10 ELSE ((x + 5) \div 10) * 10

\* the bounding box (lat_min, lon_min, lat_max, lon_max) that the inverse
\* permutation makes of the four arguments of the emitted clause
BoxOfClause ==
    LET a == Split(Tail(spatial_flag))
    IN  <<Float(a[2]), Float(a[1]), Float(a[4]), Float(a[3])>>

\* the run was given a bounding box and has built its spatial clause
BoxResolved == BBOX # NoBox /\ pc # "Spatial"

\* the clause is bounding_box= followed by four numbers, and the box of the
\* documented scenario yields the documented clause
ClauseShape ==
    /\ Head(spatial_flag) = "&bounding_box="
    /\ Len(Split(Tail(spatial_flag))) = 4
    /\ BBOX = <<400000000, -1000000000, 420000000, -960000000>> =>
          Text(spatial_flag) =
            "&bounding_box=-100.000000,40.000000,-96.000000,42.000000"

\* C19 as stated: the clause is bounding_box=lon_min,lat_min,lon_max,lat_max
\* and the inverse permutation of its arguments gives back B.
C19_BoxRoundTrip == BoxResolved => (ClauseShape /\ BoxOfClause = BBOX)

\* C19 amended: the inverse permutation of the arguments gives back B with
\* each value rounded to six decimals.
C19_BoxRoundTripSixDecimals ==
    BoxResolved =>
        (ClauseShape /\ BoxOfClause = [k \in 1..4 |-> Round6(BBOX[k])])

\* a run with a box that has a seventh decimal has searched and ended
C19_Witness ==
    /\ BoxResolved /\ pc = "Done"
    /\ BBOX[1] % 10 # 0
    /\ BoxOfClause # BBOX

\* C20: every HTTP call of a sync, catalog search request, checksum fetch or
\* download, is issued with the socket timeout of 20 seconds, none without a
\* timeout.
C20_UniformTimeout == \A r \in requests : r.timeout = <<20>>

\* C21: every network failure of a transfer, at the opening of the url or
\* while the body is copied to the local file, leaves from_lpdaac as the
\* 'Download error from ...' exception (in serial mode it is the exception
\* that ends the run), and the description is returned, and logged, only for
\* a transfer that wrote the whole body.
C21_FailuresWrapped ==
    PROCESSES = 0 =>
        /\ \A k \in DOMAIN unit : Failed(k) => err = "Download error"
        /\ Len(logged) =
              Cardinality({k \in DOMAIN unit : unit[k].get = "ok"})

\* the values of the '&version=' clauses of a version flag, in order
RECURSIVE Clauses(_)
Clauses(text) ==
    IF text = <<>> THEN <<>>
    ELSE LET rest == Tail(text)
             n == Cardinality({k \in DOMAIN rest :
                                  \A m \in 1..k : rest[m] # "&version="})
         IN  <<SubSeq(rest, 1, n)>> \o Clauses(SubSeq(rest, n + 1, Len(rest)))

\* a version with its leading zeros stripped (one digit is always left)
RECURSIVE Stripped(_)
Stripped(version) ==
    IF Len(version) > 1 /\ version[1] = "0"
    THEN Stripped(Tail(version)) ELSE version

\* the version padded with zeros to each width from 3 down to its digit count
PaddedFromThree(version) ==
    LET digits == Stripped(version)
    IN  [k \in 1..(4 - Len(digits)) |->
            [m \in 1..(4 - k - Len(digits)) |-> "0"] \o digits]

\* C22: for a version string of at most 3 characters build_version_query
\* emits one '&version=' clause per width from 3 down to the digit count of
\* the version without its leading zeros, each padded with zeros to that
\* width, widest first ('002' gives 002, 02, 2); for a longer string it raises
\* and emits nothing, and nothing is requested.
C22_VersionClauses ==
    (pc # "Spatial" /\ VERSION # <<>>) =>
        IF Len(VERSION) <= 3
        THEN /\ version_flag # Unbound
             /\ Head(version_flag) = "&version="
             /\ Clauses(version_flag) = PaddedFromThree(VERSION)
             /\ VERSION = <<"0", "0", "2">> =>
                   Text(version_flag) = "&version=002&version=02&version=2"
        ELSE /\ version_flag = Unbound
             /\ pc = "Aborted" /\ err = "Version string too long"
             /\ requests = {}

\* a run with a version of three characters, two digits of them significant,
\* has searched with two clauses and ended
C22_Witness ==
    /\ pc = "Done"
    /\ Len(VERSION) = 3 /\ VERSION[1] = "0" /\ VERSION[2] # "0"
    /\ Len(Clauses(version_flag)) = 2

\* C23: the first page request carries no cmr-scroll-id header; the token and
\* the hit count are those of the first response; every later page request
\* carries that token, and neither is changed or cleared in the course of
\* the run.
C23_ScrollToken ==
    /\ [](/\ Len(sent) = nPage
          /\ sent # <<>> => sent[1] = None
          /\ \A n \in 2..Len(sent) : sent[n] = ResponseToken(1)
          /\ cmr_scroll_id # None =>
                (cmr_scroll_id = ResponseToken(1) /\ hits = Hits(catalog)))
    /\ [][(cmr_scroll_id # None /\ pc' # "Spatial") =>
            (cmr_scroll_id' = cmr_scroll_id /\ hits' = hits)]_vars

\* a search of three page requests, the two later ones with the token, has
\* been followed by a sync that ended
C23_Witness ==
    /\ pc = "Done"
    /\ sent = <<None, ScrollToken, ScrollToken>>

\* C24: in serial mode the units run one after another in the order of the
\* granule list: the download of a granule comes after its checksum fetch
\* and is issued exactly when the comparison returned False, the unit in
\* hand is the one at the loop position and every unit before it has
\* finished, and no unit after it has issued a request.
C24_SerialOrder ==
    (PROCESSES = 0 /\ pc \in {"SerialSync", "Done", "Aborted"}) =>
        \A k \in DOMAIN unit :
            /\ unit[k].get # "none" => unit[k].cmp = "false"
            /\ (unit[k].cmp = "false" /\ unit[k].st = "done") =>
                  unit[k].get # "none"
            /\ unit[k].cmp \in {"true", "raise"} => unit[k].get = "none"
            /\ k < i => unit[k].st = "done"
            /\ k > i => unit[k] = NewUnit
            /\ Executed(k) => \A j \in 1..(k - 1) : unit[j].st = "done"

\* a serial run of two granules has ended, the first skipped after its
\* comparison and the second downloaded
C24_Witness ==
    /\ PROCESSES = 0 /\ pc = "Done" /\ N = 2
    /\ unit[1].cmp = "true" /\ unit[1].get = "none"
    /\ unit[2].cmp = "false" /\ unit[2].get = "ok"

\* how far a unit has come
Stage(st) ==
    CASE st = "new" -> 0 [] st = "queued" -> 1 [] st = "fetch" -> 2
      [] OTHER -> 3

\* a pool has been created in this run
PoolCreated == pc \in {"ParallelSync", "Collecting"} \/ logged # <<>>

\* C25: in parallel mode every granule of the search result is submitted to
\* the pool exactly once (one unit per element of the list, the submitted
\* ones being those before the loop position), a unit is taken up once and
\* runs to its completion without ever starting again, and never more than
\* PROCESSES units are executing; with PROCESSES == 0 no pool is created and
\* no unit is submitted.
C25_PoolDiscipline ==
    /\ [](/\ (PROCESSES > 0 /\ PoolCreated) =>
                /\ Len(unit) = N
                /\ Cardinality(Running) <= PROCESSES
                /\ pc = "ParallelSync" =>
                      \A k \in DOMAIN unit : unit[k].st # "new" <=> k < i
                /\ pc # "ParallelSync" =>
                      \A k \in DOMAIN unit : unit[k].st = "done"
                /\ \A k \in DOMAIN unit :
                      unit[k].st = "done" <=> unit[k].res # "pending"
          /\ PROCESSES = 0 =>
                /\ pc \notin {"ParallelSync", "Collecting"}
                /\ \A k \in DOMAIN unit :
                      unit[k].st # "queued" /\ unit[k].res = "pending")
    /\ [][(PROCESSES > 0 /\ pc' # "Spatial") =>
            \A k \in DOMAIN unit :
                /\ k \in DOMAIN unit'
                /\ Stage(unit'[k].st) >= Stage(unit[k].st)
                /\ unit[k].cmp # "none" => unit'[k].cmp = unit[k].cmp
                /\ unit[k].get # "none" => unit'[k].get = unit[k].get]_vars

\* a pool of two workers has both units of a list of two in hand
C25_Witness ==
    /\ PROCESSES = 2 /\ N = 2
    /\ pc = "ParallelSync"
    /\ Running = {1, 2}

\* the page has the keys feed and entry and an entry with a link of the
\* target type
YieldsUrl(page) ==
    /\ "feed" \in DOMAIN page
    /\ "entry" \in DOMAIN page.feed
    /\ \E e \in DOMAIN page.feed.entry :
          \E l \in DOMAIN page.feed.entry[e].links :
              LET link == page.feed.entry[e].links[l]
              IN  "type" \in DOMAIN link /\ link.type = "application/x-hdfeos"

\* the number of leading pages of the catalog that yield a url
RECURSIVE LeadingPages(_)
LeadingPages(cat) ==
    IF cat = <<>> \/ ~YieldsUrl(Head(cat)) THEN 0
    ELSE 1 + LeadingPages(Tail(cat))

\* C26: the search loop stops at, and only at, the first page that yields no
\* data-file url: a search that has ended has issued (leading pages that
\* yield a url) + 1 page requests, whatever the hit count; while it goes on
\* every page answered so far yielded a url, and an answered page that yields
\* a url never ends it.
C26_StopsAtFirstEmptyPage ==
    /\ [](/\ SearchEnded => nPage = LeadingPages(catalog) + 1
          /\ pc = "Searching" => nPage <= LeadingPages(catalog))
    /\ [][(/\ pc = "Searching"
           /\ nPage' = nPage + 1
           /\ err' # "SearchError"
           /\ YieldsUrl(PageAt(catalog, nPage'))) => pc' = "Searching"]_vars

\* a search has gone past two pages that yield a url and has stopped at a
\* third page whose entries have no link of the target type, with fewer
\* granules than the hit count
C26_Witness ==
    /\ SearchEnded /\ nPage = 3
    /\ Len(catalog) = 3 /\ Entries(catalog[3]) # <<>>
    /\ Len(granules) < hits

====
